---- MODULE Spec2Model ----
(***************************************************************************)
(* PollyClient (src/api/client/polly_client.py): a client object holding   *)
(* base_url and token, whose methods each build one HTTP request, send it, *)
(* raise on a 4xx/5xx status and return the decoded JSON body.             *)
(*                                                                         *)
(* A method is an operator of the object, its arguments and the network's  *)
(* answer, giving the object afterwards, the requests the call sent and    *)
(* how the call ended.  One action per method applies it.                  *)
(***************************************************************************)
EXTENDS Integers, Sequences, FiniteSets, TLC

VARIABLES client, ctor_kwargs, call, everSet, lastStored

vars == <<client, ctor_kwargs, call, everSet, lastStored>>

(***************************** bounds **************************************)
MaxPollId == 2
MaxOptionId == 1
MaxSkip == 1
MaxLimit == 1

(************************ Python values ************************************)
PyNone == [py |-> "None"]
PyStr(s) == [py |-> "str", s |-> s]
PyInt(i) == [py |-> "int", i |-> i]
PyDict(d) == [py |-> "dict", d |-> d]
PyList(l) == [py |-> "list", l |-> l]

\* bool(v), as `not self.token` evaluates it
Truthy(v) ==
    CASE v.py = "None" -> FALSE
      [] v.py = "str"  -> v.s # ""
      [] v.py = "int"  -> v.i # 0
      [] v.py = "dict" -> DOMAIN v.d # {}
      [] v.py = "list" -> Len(v.l) # 0

\* format(v) inside an f-string
Format(v) ==
    CASE v.py = "None" -> "None"
      [] v.py = "str"  -> v.s
      [] v.py = "int"  -> ToString(v.i)
      [] v.py = "dict" -> "{...}"
      [] v.py = "list" -> "[...]"

\* how a call ends
Return(v) == [kind |-> "return", value |-> v]
Raise(exc) == [kind |-> "raise", exc |-> exc]
RaiseHTTPError(response) == [kind |-> "raise", exc |-> "HTTPError", response |-> response]

\* binding of keyword arguments to a signature's defaults
Bind(defaults, kwargs) == kwargs @@ defaults

(************************ the network **************************************)
Body_tokA == "{\"access_token\": \"tokA\", \"token_type\": \"bearer\"}"
Body_tokB == "{\"access_token\": \"tokB\", \"token_type\": \"bearer\"}"
Body_tokEmpty == "{\"access_token\": \"\", \"token_type\": \"bearer\"}"
Body_tokNull == "{\"access_token\": null, \"token_type\": \"bearer\"}"
Body_object == "{\"id\": 1}"
Body_list == "[]"
Body_empty == ""

Bodies == {Body_tokA, Body_tokB, Body_tokEmpty, Body_tokNull, Body_object, Body_list, Body_empty}

Statuses == {200, 204, 304, 404, 500}

\* what requests.post/get/delete gives back: a response, or a transport failure
Answers == [kind : {"response"}, status_code : Statuses, text : Bodies]
             \cup {[kind |-> "failure"]}

\* response.json(): the decoded body, or a decoding failure
json(text) ==
    CASE text = Body_tokA -> [ok |-> TRUE, value |-> PyDict([access_token |-> PyStr("tokA"), token_type |-> PyStr("bearer")])]
      [] text = Body_tokB -> [ok |-> TRUE, value |-> PyDict([access_token |-> PyStr("tokB"), token_type |-> PyStr("bearer")])]
      [] text = Body_tokEmpty -> [ok |-> TRUE, value |-> PyDict([access_token |-> PyStr(""), token_type |-> PyStr("bearer")])]
      [] text = Body_tokNull -> [ok |-> TRUE, value |-> PyDict([access_token |-> PyNone, token_type |-> PyStr("bearer")])]
      [] text = Body_object -> [ok |-> TRUE, value |-> PyDict([id |-> PyInt(1)])]
      [] text = Body_list -> [ok |-> TRUE, value |-> PyList(<<>>)]
      [] OTHER -> [ok |-> FALSE]

\* a raise_for_status that lets client errors through
raise_for_status_5xx_only(status_code) == 500 <= status_code /\ status_code < 600

\* response.raise_for_status(): TRUE when it raises
raise_for_status(status_code) == 400 <= status_code /\ status_code < 600

\* v[key]
Subscript(v, key) ==
    IF v.py = "dict"
    THEN IF key \in DOMAIN v.d THEN [ok |-> TRUE, value |-> v.d[key]]
         ELSE [ok |-> FALSE, exc |-> "KeyError"]
    ELSE [ok |-> FALSE, exc |-> "TypeError"]

\* what a method call gives: the object afterwards, the requests sent, the ending
Outcome(self, sent, result) == [self |-> self, sent |-> sent, result |-> result]

(************************ PollyClient **************************************)
init_defaults == [base_url |-> "http://localhost:8000"]

new_client(kwargs) ==
    LET a == Bind(init_defaults, kwargs)
    IN  [base_url |-> a.base_url, token |-> PyNone]

\* an assignment to the wrong attribute
set_token_into_base_url(self, token) == [self EXCEPT !.base_url = Format(token)]

set_token(self, token) == [self EXCEPT !.token = token]

\* a login that returns the token record without storing the token
login_without_store(self, username, password, net) ==
    LET url == self.base_url \o "/login"
        req == [method |-> "POST", url |-> url, headers |-> <<>>,
                data |-> [username |-> username, password |-> password]]
    IN  IF net.kind = "failure" THEN Outcome(self, <<req>>, Raise("ConnectionError"))
        ELSE IF raise_for_status(net.status_code) THEN Outcome(self, <<req>>, RaiseHTTPError(net))
        ELSE LET token_data == json(net.text)
             IN  IF ~token_data.ok THEN Outcome(self, <<req>>, Raise("JSONDecodeError"))
                 ELSE LET tok == Subscript(token_data.value, "access_token")
                      IN  IF ~tok.ok THEN Outcome(self, <<req>>, Raise(tok.exc))
                          ELSE Outcome(self, <<req>>, Return(token_data.value))

\* a login that drops the stored token when the server rejects the credentials
login_clears_on_rejection(self, username, password, net) ==
    LET url == self.base_url \o "/login"
        req == [method |-> "POST", url |-> url, headers |-> <<>>,
                data |-> [username |-> username, password |-> password]]
    IN  IF net.kind = "failure" THEN Outcome(self, <<req>>, Raise("ConnectionError"))
        ELSE IF raise_for_status(net.status_code)
             THEN Outcome([self EXCEPT !.token = PyNone], <<req>>, RaiseHTTPError(net))
        ELSE LET token_data == json(net.text)
             IN  IF ~token_data.ok THEN Outcome(self, <<req>>, Raise("JSONDecodeError"))
                 ELSE LET tok == Subscript(token_data.value, "access_token")
                      IN  IF ~tok.ok THEN Outcome(self, <<req>>, Raise(tok.exc))
                          ELSE Outcome(set_token(self, tok.value), <<req>>, Return(token_data.value))

login(self, username, password, net) ==
    LET url == self.base_url \o "/login"
        req == [method |-> "POST", url |-> url, headers |-> <<>>,
                data |-> [username |-> username, password |-> password]]
    IN  IF net.kind = "failure" THEN Outcome(self, <<req>>, Raise("ConnectionError"))
        ELSE IF raise_for_status(net.status_code) THEN Outcome(self, <<req>>, RaiseHTTPError(net))
        ELSE LET token_data == json(net.text)
             IN  IF ~token_data.ok THEN Outcome(self, <<req>>, Raise("JSONDecodeError"))
                 ELSE LET tok == Subscript(token_data.value, "access_token")
                      IN  IF ~tok.ok THEN Outcome(self, <<req>>, Raise(tok.exc))
                          ELSE Outcome(set_token(self, tok.value), <<req>>, Return(token_data.value))

\* a check that takes only the empty string for a missing token
token_missing_only_empty(self) == self.token = PyStr("")

\* the check with its condition inverted
token_missing_inverted(self) == Truthy(self.token)

\* `if not self.token:` at the head of an authenticated method
token_missing(self) == ~Truthy(self.token)

\* the text of the bearer header
bearer(self) == "Bearer " \o Format(self.token)

\* a response handling that sends the request once more when it failed
respond_retry(self, req, net) ==
    IF net.kind = "failure" THEN Outcome(self, <<req, req>>, Raise("ConnectionError"))
    ELSE IF raise_for_status(net.status_code) THEN Outcome(self, <<req, req>>, RaiseHTTPError(net))
    ELSE LET data == json(net.text)
         IN  IF ~data.ok THEN Outcome(self, <<req>>, Raise("JSONDecodeError"))
             ELSE Outcome(self, <<req>>, Return(data.value))

\* a response handling that logs the session out on an HTTP error
respond_logout_on_error(self, req, net) ==
    IF net.kind = "failure" THEN Outcome(self, <<req>>, Raise("ConnectionError"))
    ELSE IF raise_for_status(net.status_code)
         THEN Outcome([self EXCEPT !.token = PyNone], <<req>>, RaiseHTTPError(net))
    ELSE LET data == json(net.text)
         IN  IF ~data.ok THEN Outcome(self, <<req>>, Raise("JSONDecodeError"))
             ELSE Outcome(self, <<req>>, Return(data.value))

\* the steps every method shares after its request is sent:
\* raise_for_status(), then response.json()
respond(self, req, net) ==
    IF net.kind = "failure" THEN Outcome(self, <<req>>, Raise("ConnectionError"))
    ELSE IF raise_for_status(net.status_code) THEN Outcome(self, <<req>>, RaiseHTTPError(net))
    ELSE LET data == json(net.text)
         IN  IF ~data.ok THEN Outcome(self, <<req>>, Raise("JSONDecodeError"))
             ELSE Outcome(self, <<req>>, Return(data.value))

vote_on_poll(self, poll_id, option_id, net) ==
    IF token_missing(self) THEN Outcome(self, <<>>, Raise("ValueError"))
    ELSE LET url == self.base_url \o "/polls/" \o ToString(poll_id) \o "/vote"
             headers == ("Authorization" :> bearer(self)) @@ ("Content-Type" :> "application/json")
             payload == [option_id |-> option_id]
             req == [method |-> "POST", url |-> url, headers |-> headers, json |-> payload]
         IN  respond(self, req, net)

\* the defaults of skip and limit exchanged
get_polls_defaults_swapped == [skip |-> 10, limit |-> 0]

get_polls_defaults == [skip |-> 0, limit |-> 10]

get_polls(self, kwargs, net) ==
    LET a == Bind(get_polls_defaults, kwargs)
        url == self.base_url \o "/polls"
        params == [skip |-> a.skip, limit |-> a.limit]
        req == [method |-> "GET", url |-> url, headers |-> <<>>, params |-> params]
    IN  respond(self, req, net)

get_poll(self, poll_id, net) ==
    LET url == self.base_url \o "/polls/" \o ToString(poll_id)
        req == [method |-> "GET", url |-> url, headers |-> <<>>]
    IN  respond(self, req, net)

\* get_poll_results written as an authenticated method
get_poll_results_authenticated(self, poll_id, net) ==
    IF token_missing(self) THEN Outcome(self, <<>>, Raise("ValueError"))
    ELSE LET url == self.base_url \o "/polls/" \o ToString(poll_id) \o "/results"
             req == [method |-> "GET", url |-> url, headers |-> "Authorization" :> bearer(self)]
         IN  respond(self, req, net)

get_poll_results(self, poll_id, net) ==
    LET url == self.base_url \o "/polls/" \o ToString(poll_id) \o "/results"
        req == [method |-> "GET", url |-> url, headers |-> <<>>]
    IN  respond(self, req, net)

create_poll(self, question, options, net) ==
    IF token_missing(self) THEN Outcome(self, <<>>, Raise("ValueError"))
    ELSE LET url == self.base_url \o "/polls"
             headers == ("Authorization" :> bearer(self)) @@ ("Content-Type" :> "application/json")
             payload == [question |-> question, options |-> options]
             req == [method |-> "POST", url |-> url, headers |-> headers, json |-> payload]
         IN  respond(self, req, net)

delete_poll(self, poll_id, net) ==
    IF token_missing(self) THEN Outcome(self, <<>>, Raise("ValueError"))
    ELSE LET url == self.base_url \o "/polls/" \o ToString(poll_id)
             headers == "Authorization" :> bearer(self)
             req == [method |-> "DELETE", url |-> url, headers |-> headers]
         IN  IF net.kind = "failure" THEN Outcome(self, <<req>>, Raise("ConnectionError"))
             ELSE IF raise_for_status(net.status_code) THEN Outcome(self, <<req>>, RaiseHTTPError(net))
             ELSE Outcome(self, <<req>>, Return(PyNone))

(************************ the state machine ********************************)
\* the strings a caller gives to set_token (token: str)
Tokens == {PyStr(""), PyStr("tokA")}
BaseUrls == {"http://polly.example"}
Usernames == {"alice"}
Passwords == {"secret"}
PollIds == 1..MaxPollId
OptionIds == 1..MaxOptionId
Skips == 0..MaxSkip
Limits == 1..MaxLimit
Questions == {"Best color?"}
OptionLists == {<<"Red", "Blue">>, <<>>}

\* the keyword arguments a caller of get_polls may give
GetPollsKwargs ==
    {<<>>} \cup [skip : Skips] \cup [limit : Limits] \cup [skip : Skips, limit : Limits]

NoAnswer == [kind |-> "none"]

\* a completed call: the object, the record of the call, the history of stores
Completes(op, args, net, out) ==
    /\ client' = out.self
    /\ call' = [op |-> op, args |-> args, net |-> net, sent |-> out.sent,
                result |-> out.result, token_before |-> client.token]
    /\ everSet' = (everSet \/ op = "set_token" \/ (op = "login" /\ out.result.kind = "return"))
    /\ lastStored' = IF op = "set_token" THEN args.token
                     ELSE IF op = "login" /\ out.result.kind = "return"
                          THEN json(net.text).value.d["access_token"]
                          ELSE lastStored
    /\ UNCHANGED ctor_kwargs

Init ==
    /\ ctor_kwargs \in {<<>>} \cup [base_url : BaseUrls]
    /\ client = new_client(ctor_kwargs)
    /\ call = [op |-> "__init__", args |-> ctor_kwargs, net |-> NoAnswer,
               sent |-> <<>>, result |-> Return(PyNone), token_before |-> PyNone]
    /\ everSet = FALSE
    /\ lastStored = PyNone

SetToken ==
    \E token \in Tokens :
        Completes("set_token", [token |-> token], NoAnswer,
                  Outcome(set_token(client, token), <<>>, Return(PyNone)))

Login ==
    \E username \in Usernames, password \in Passwords, net \in Answers :
        Completes("login", [username |-> username, password |-> password], net,
                  login(client, username, password, net))

VoteOnPoll ==
    \E poll_id \in PollIds, option_id \in OptionIds, net \in Answers :
        Completes("vote_on_poll", [poll_id |-> poll_id, option_id |-> option_id], net,
                  vote_on_poll(client, poll_id, option_id, net))

GetPolls ==
    \E kwargs \in GetPollsKwargs, net \in Answers :
        Completes("get_polls", kwargs, net, get_polls(client, kwargs, net))

GetPoll ==
    \E poll_id \in PollIds, net \in Answers :
        Completes("get_poll", [poll_id |-> poll_id], net, get_poll(client, poll_id, net))

GetPollResults ==
    \E poll_id \in PollIds, net \in Answers :
        Completes("get_poll_results", [poll_id |-> poll_id], net,
                  get_poll_results(client, poll_id, net))

CreatePoll ==
    \E question \in Questions, options \in OptionLists, net \in Answers :
        Completes("create_poll", [question |-> question, options |-> options], net,
                  create_poll(client, question, options, net))

DeletePoll ==
    \E poll_id \in PollIds, net \in Answers :
        Completes("delete_poll", [poll_id |-> poll_id], net, delete_poll(client, poll_id, net))

Next ==
    \/ SetToken
    \/ Login
    \/ VoteOnPoll
    \/ GetPolls
    \/ GetPoll
    \/ GetPollResults
    \/ CreatePoll
    \/ DeletePoll

Spec == Init /\ [][Next]_vars

(************************ properties ***************************************)
AuthOps == {"vote_on_poll", "create_poll", "delete_poll"}
UnauthOps == {"get_polls", "get_poll", "get_poll_results"}
RequestOps == {"login"} \cup AuthOps \cup UnauthOps

LocalAuthError == Raise("ValueError")
Is4xx5xx(net) == net.kind = "response" /\ net.status_code \in 400..599
Is2xx(net) == net.kind = "response" /\ net.status_code \in 200..299

\* C1: an authenticated operation called before any setToken or successful
\* login ends with the local authentication error and has sent no request,
\* whatever the server would have answered.
C1_NoTokenNoRequest ==
    (call.op \in AuthOps /\ ~everSet)
        => (call.result = LocalAuthError /\ call.sent = <<>>)

C1_Witness ==
    /\ call.op = "delete_poll"
    /\ ~everSet
    /\ Is2xx(call.net)
    /\ call.result = LocalAuthError

\* C2: a login that succeeds with access_token T leaves the token equal to T,
\* and every request an authenticated operation sends carries
\* Authorization: Bearer <value stored by the most recent setToken or
\* successful login>.
C2_BearerIsLastStored ==
    /\ (call.op = "login" /\ call.result.kind = "return")
           => client.token = call.result.value.d["access_token"]
    /\ (call.op \in AuthOps /\ call.sent # <<>>)
           => /\ lastStored.py = "str"
              /\ \A i \in DOMAIN call.sent :
                     /\ "Authorization" \in DOMAIN call.sent[i].headers
                     /\ call.sent[i].headers["Authorization"] = "Bearer " \o lastStored.s

C2_Witness ==
    /\ call.op = "vote_on_poll"
    /\ lastStored = PyStr("tokB")
    /\ Len(call.sent) = 1
    /\ call.sent[1].headers["Authorization"] = "Bearer tokB"

\* C3 as stated: once the token is set, no operation brings it back to unset.
C3_Original == [][client.token # PyNone => client'.token # PyNone]_vars

\* C3 as amended: once the token is set, the only step that brings it back to
\* unset is a login that succeeds with a response whose access_token is null;
\* every other operation and outcome leaves it set.
C3_ClearedOnlyByNullLogin ==
    [][(client.token # PyNone /\ client'.token = PyNone)
          => /\ call'.op = "login"
             /\ call'.result.kind = "return"
             /\ call'.result.value.d["access_token"] = PyNone]_vars

C3_Witness ==
    /\ call.op = "login"
    /\ call.token_before = PyStr("tokA")
    /\ call.result.kind = "return"
    /\ client.token = PyStr("tokB")

\* C4 as stated: with a non-nil token, an authenticated operation does not
\* raise the local authentication error and sends its request.
C4_Original ==
    (call.op \in AuthOps /\ call.token_before # PyNone)
        => (call.result # LocalAuthError /\ Len(call.sent) = 1)

\* C4 as amended: with a token that is a non-empty string, an authenticated
\* operation does not raise the local authentication error and sends its
\* request.
C4_NonEmptyTokenSends ==
    (call.op \in AuthOps /\ call.token_before.py = "str" /\ call.token_before.s # "")
        => (call.result # LocalAuthError /\ Len(call.sent) = 1)

C4_Witness ==
    /\ call.op = "create_poll"
    /\ call.token_before = PyStr("tokA")
    /\ Len(call.sent) = 1
    /\ call.result.kind = "return"

\* what the 4xx/5xx half of C5 says of a call
C5_ErrorHalf ==
    (call.op \in RequestOps /\ call.sent # <<>> /\ Is4xx5xx(call.net))
        => /\ call.result.kind = "raise"
           /\ call.result.exc = "HTTPError"
           /\ call.result.response.status_code = call.net.status_code

\* C5 as stated: 4xx/5xx ends with an HTTP error carrying the status; 2xx
\* returns the decoded response body unchanged (delete_poll returns nothing).
C5_Original ==
    /\ C5_ErrorHalf
    /\ (call.op \in RequestOps /\ call.sent # <<>> /\ Is2xx(call.net))
        => /\ call.result.kind = "return"
           /\ call.op = "delete_poll" => call.result.value = PyNone
           /\ call.op # "delete_poll" => /\ json(call.net.text).ok
                                         /\ call.result.value = json(call.net.text).value

\* C5 as amended: 4xx/5xx ends with an HTTP error carrying the status; 2xx
\* never ends with an HTTP error, delete_poll then returns nothing, and the
\* other operations return the decoded body unchanged when the body is JSON
\* (for login: a JSON object with an access_token field).
C5_StatusDecidesOutcome ==
    /\ C5_ErrorHalf
    /\ (call.op \in RequestOps /\ call.sent # <<>> /\ Is2xx(call.net))
        => /\ ~(call.result.kind = "raise" /\ call.result.exc = "HTTPError")
           /\ call.op = "delete_poll" => call.result = Return(PyNone)
           /\ (/\ call.op # "delete_poll"
               /\ json(call.net.text).ok
               /\ call.op = "login" =>
                      /\ json(call.net.text).value.py = "dict"
                      /\ "access_token" \in DOMAIN json(call.net.text).value.d)
                  => call.result = Return(json(call.net.text).value)

C5_Witness ==
    /\ call.op = "get_poll"
    /\ call.net.kind = "response"
    /\ call.net.status_code = 404
    /\ call.result.kind = "raise"
    /\ call.result.exc = "HTTPError"

\* C6: a call of a request-sending operation sends at most one request,
\* exactly one unless it ends with the local authentication error, and a
\* failed request ends the call with that failure.
C6_SingleRequest ==
    call.op \in RequestOps
        => /\ Len(call.sent) <= 1
           /\ (Len(call.sent) = 1) <=> (call.result # LocalAuthError)
           /\ (call.sent # <<>> /\ call.net.kind = "failure")
                  => call.result = Raise("ConnectionError")
           /\ (call.sent # <<>> /\ Is4xx5xx(call.net))
                  => call.result = RaiseHTTPError(call.net)

C6_Witness ==
    /\ call.op = "vote_on_poll"
    /\ call.net.kind = "failure"
    /\ Len(call.sent) = 1
    /\ call.result = Raise("ConnectionError")

\* the request C7 names for an operation and its arguments
C7_Method(op) ==
    CASE op \in {"login", "vote_on_poll", "create_poll"} -> "POST"
      [] op \in UnauthOps -> "GET"
      [] op = "delete_poll" -> "DELETE"

C7_Path(op, args) ==
    CASE op = "login" -> "/login"
      [] op = "vote_on_poll" -> "/polls/" \o ToString(args.poll_id) \o "/vote"
      [] op = "get_polls" -> "/polls"
      [] op = "get_poll" -> "/polls/" \o ToString(args.poll_id)
      [] op = "get_poll_results" -> "/polls/" \o ToString(args.poll_id) \o "/results"
      [] op = "create_poll" -> "/polls"
      [] op = "delete_poll" -> "/polls/" \o ToString(args.poll_id)

C7_Body(op, args, req) ==
    CASE op = "login" ->
             req.data = [username |-> args.username, password |-> args.password]
      [] op = "vote_on_poll" -> req.json = [option_id |-> args.option_id]
      [] op = "get_polls" ->
             req.params = [skip  |-> IF "skip" \in DOMAIN args THEN args.skip ELSE 0,
                           limit |-> IF "limit" \in DOMAIN args THEN args.limit ELSE 10]
      [] op = "create_poll" ->
             req.json = [question |-> args.question, options |-> args.options]
      [] OTHER -> DOMAIN req = {"method", "url", "headers"}

\* C7: the request sent is the fixed function of the operation and its
\* arguments that the interface table gives, on the client's base_url.
C7_RequestShape ==
    (call.op \in RequestOps /\ call.sent # <<>>)
        => \A i \in DOMAIN call.sent :
               /\ call.sent[i].method = C7_Method(call.op)
               /\ call.sent[i].url = client.base_url \o C7_Path(call.op, call.args)
               /\ C7_Body(call.op, call.args, call.sent[i])

C7_Witness ==
    /\ call.op = "get_polls"
    /\ call.args = <<>>
    /\ Len(call.sent) = 1
    /\ call.sent[1].params = [skip |-> 0, limit |-> 10]
    /\ call.sent[1].url = "http://localhost:8000/polls"

\* C8: base_url always equals the value given to the constructor,
\* http://localhost:8000 when none was given.
C8_BaseUrlImmutable ==
    client.base_url = IF "base_url" \in DOMAIN ctor_kwargs
                      THEN ctor_kwargs.base_url
                      ELSE "http://localhost:8000"

C8_Witness ==
    /\ call.op = "set_token"
    /\ ctor_kwargs = <<>>
    /\ client.token = PyStr("tokA")
    /\ client.base_url = "http://localhost:8000"

\* C9: the six poll operations leave the token unchanged, and the
\* unauthenticated ones send their request with no Authorization header and
\* no local authentication error, whether or not a token is set.
C9_OnlyStoresChangeToken ==
    /\ call.op \in (AuthOps \cup UnauthOps) => client.token = call.token_before
    /\ call.op \in UnauthOps
           => /\ call.result # LocalAuthError
              /\ Len(call.sent) = 1
              /\ "Authorization" \notin DOMAIN call.sent[1].headers

C9_Witness ==
    /\ call.op = "get_poll_results"
    /\ call.token_before = PyNone
    /\ Len(call.sent) = 1
    /\ call.result.kind = "return"

\* C10: a login that ends with an error (HTTP error, transport failure, 2xx
\* response without access_token) leaves the token as it was.
C10_FailedLoginKeepsToken ==
    (call.op = "login" /\ call.result.kind = "raise")
        => client.token = call.token_before

C10_Witness ==
    /\ call.op = "login"
    /\ call.token_before = PyStr("tokA")
    /\ Is2xx(call.net)
    /\ call.result = Raise("KeyError")
    /\ client.token = PyStr("tokA")
====
